---- MODULE Spec2Model ----
(***************************************************************************)
(* A model of the e-ticketing backend's purchase and transfer services.    *)
(*                                                                         *)
(* Every request is served by its own goroutine; the relational store is   *)
(* the only shared state.  A request is modelled as a process whose steps  *)
(* are the store round trips of its handler, so that concurrent requests   *)
(* interleave exactly between two statements that reach the store.         *)
(* A statement of the store can fail (the code tests every error it        *)
(* returns): the failure is a nondeterministic input of the step.          *)
(***************************************************************************)
EXTENDS Integers, Sequences, FiniteSets, TLC

(* ------------------------------------------------------------------ *)
(* Bounds of the model                                                 *)
(* ------------------------------------------------------------------ *)
MaxTickets == 3      \* rows of the tickets table
MaxReqs == 2         \* concurrent purchase requests
MaxQty == 2          \* largest quantity a request asks for
MaxTime == 3         \* the clock runs over 0..MaxTime
MaxTReqs == 2        \* concurrent transfer requests
MaxUsers == 3        \* rows of the users table
MaxTransfers == 2    \* rows the active transfers table may grow to
MaxPurchased == 1    \* purchased tickets the transfer requests start with
MaxAmount == 1       \* largest amount of a CreateTickets request
MaxCreated == 1      \* tickets the seller's requests add to the table
MaxBuyers == 1       \* purchase requests running beside the seller's requests
MaxSellers == 2      \* rows of the sellers table
MaxSellerCalls == 2  \* requests the seller makes
MaxDate == 3         \* sale dates run from 1 to MaxDate
MaxSales == 3        \* ids the sales table gives out

(* ------------------------------------------------------------------ *)
(* Program constants                                                   *)
(* ------------------------------------------------------------------ *)
EventStatusPending == 1
EventStatusApproved == 2
PaymentStatusPending == 1
PaymentStatusCompleted == 2
PaymentStatusFailed == 3
PaymentStatusRefunded == 4

VARIABLES
    tickets,        \* tickets table: id -> row
    locks,          \* row locks of the tickets table: id -> holding request, 0 when free
    purchased,      \* purchased_tickets table, a sequence: id = index
    payments,       \* payments table, a sequence: id = index
    sales,          \* sales table: id -> row
    events,         \* events table: id -> row
    clock,          \* time.Now().Unix()
    req,            \* purchase requests: position, locals and result of each
    transfers,      \* active_ticket_transfers table, a sequence: id = index
    doneTransfers,  \* done_ticket_transfers table, a sequence: id = index
    treq,           \* transfer requests: position, locals and result of each
    sreq,           \* the seller's ticket management request: position, locals, result
    ticketSeq,      \* the last id the tickets table gave out (auto-increment)
    saleSeq         \* the last id the sales table gave out (auto-increment)

vars == <<tickets, locks, purchased, payments, sales, events, clock, req,
          transfers, doneTransfers, treq, sreq, ticketSeq, saleSeq>>

transferVars == <<transfers, doneTransfers, treq>>
purchaseVars == <<tickets, locks, payments, sales, events, clock, req>>
sellerVars == <<sreq, ticketSeq, saleSeq>>

Reqs == 1..MaxReqs
TReqs == 1..MaxTReqs
Users == 1..MaxUsers
TicketIDs == 1..MaxTickets

Min(a, b) == IF a < b THEN a ELSE b

(* The ids of a set of rows in ascending order. *)
RECURSIVE SetToSeq(_)
SetToSeq(S) ==
    IF S = {} THEN <<>>
    ELSE LET m == CHOOSE x \in S : \A y \in S : x <= y
         IN <<m>> \o SetToSeq(S \ {m})

(* ------------------------------------------------------------------ *)
(* Rows                                                                *)
(* ------------------------------------------------------------------ *)
(* The group key of a ticket: the columns the grouped queries compare. *)
Criteria(eventID, price, type, isVip, title, place, saleID) ==
    [eventID |-> eventID, price |-> price, type |-> type, isVip |-> isVip,
     title |-> title, place |-> place, saleID |-> saleID]

GroupA == Criteria(1, 1, 1, FALSE, "A", "hall", 1)
GroupB == Criteria(1, 2, 1, FALSE, "B", "hall", 1)

Ticket(id, c, isSold, isHeld) ==
    [id |-> id, price |-> c.price, isHeld |-> isHeld, isSold |-> isSold,
     type |-> c.type, isVip |-> c.isVip, title |-> c.title, description |-> "d1",
     place |-> c.place, saleID |-> c.saleID, eventID |-> c.eventID]

PurchasedTicket(ticket, userID) ==
    [price |-> ticket.price, type |-> ticket.type, isVip |-> ticket.isVip,
     title |-> ticket.title, description |-> ticket.description, place |-> ticket.place,
     userID |-> userID, ticketID |-> ticket.id, isUsed |-> FALSE]

Payment(userID, amount, status) ==
    [userID |-> userID, amount |-> amount, status |-> status]

TransferStatusPending == 1
TransferStatusAccepted == 2
TransferStatusRejected == 3
TransferStatusCancelled == 4

ActiveTicketTransfer(fromUserID, toUserID, purchasedTicketID, status) ==
    [fromUserID |-> fromUserID, toUserID |-> toUserID,
     purchasedTicketID |-> purchasedTicketID, status |-> status]

DoneTicketTransfer(transfer) ==
    [fromUserID |-> transfer.fromUserID, toUserID |-> transfer.toUserID,
     purchasedTicketID |-> transfer.purchasedTicketID]

IdleTReq ==
    [op |-> "none", pc |-> "idle", userID |-> 0, id |-> 0, toUserID |-> 0,
     transfer |-> <<>>, ticket |-> <<>>, result |-> "none",
     path |-> <<>>, code |-> 0]

IdleReq ==
    [op |-> "none", pc |-> "idle", userID |-> 0, crit |-> GroupA, quantity |-> 0,
     now |-> -1, avail |-> <<>>, i |-> 0, payID |-> 0, gateway |-> "none",
     result |-> "none"]

IdleSReq ==
    [op |-> "none", pc |-> "idle", crit |-> GroupA, price |-> 0, description |-> "",
     list |-> <<>>, i |-> 0, calls |-> 0, result |-> "none", sale |-> <<>>]

(* ------------------------------------------------------------------ *)
(* Initial state: one approved or pending event, one sale window        *)
(* [1, 2], one unit of group A and the other units of group B, nothing  *)
(* sold, no request running.                                            *)
(* ------------------------------------------------------------------ *)
InitTickets ==
    [id \in TicketIDs |-> Ticket(id, IF id = 1 THEN GroupA ELSE GroupB, FALSE, FALSE)]

Init ==
    /\ tickets = InitTickets
    /\ locks = [id \in TicketIDs |-> 0]
    /\ purchased = <<>>
    /\ payments = <<>>
    /\ sales = (1 :> [startDate |-> 1, endDate |-> 2, eventID |-> 1])
    /\ \E st \in {EventStatusPending, EventStatusApproved} :
          events = (1 :> [status |-> st, sellerID |-> 1])
    /\ clock = 0
    /\ req = [r \in Reqs |-> IdleReq]
    /\ transfers = <<>>
    /\ doneTransfers = <<>>
    /\ treq = [r \in TReqs |-> IdleTReq]
    /\ sreq = IdleSReq
    /\ ticketSeq = MaxTickets
    /\ saleSeq = 1

(* ------------------------------------------------------------------ *)
(* Helpers                                                             *)
(* ------------------------------------------------------------------ *)
Return(r, rq, msg) == req' = [req EXCEPT ![r] = [rq EXCEPT !.pc = "done", !.result = msg]]

Goto(r, rq, pc) == req' = [req EXCEPT ![r] = [rq EXCEPT !.pc = pc]]

(* SaleNotActive with the start of the window excluded. *)
SaleNotActive_StartExcluded(sale, now) == now <= sale.startDate \/ now > sale.endDate

(* now < sale.StartDate || now > sale.EndDate *)
SaleNotActive(sale, now) == now < sale.startDate \/ now > sale.endDate

(* MatchesAvailable without the is_held condition. *)
MatchesAvailable_IgnoreHeld(t, c) ==
    /\ t.eventID = c.eventID
    /\ t.price = c.price
    /\ t.type = c.type
    /\ t.isVip = c.isVip
    /\ t.title = c.title
    /\ t.place = c.place
    /\ t.saleID = c.saleID
    /\ t.isSold = FALSE

(* The WHERE clause of FindAndLockAvailableTickets. *)
MatchesAvailable(t, c) ==
    /\ t.eventID = c.eventID
    /\ t.price = c.price
    /\ t.type = c.type
    /\ t.isVip = c.isVip
    /\ t.title = c.title
    /\ t.place = c.place
    /\ t.saleID = c.saleID
    /\ t.isSold = FALSE
    /\ t.isHeld = FALSE

(* db.Save(ticket): writes every column of the given row under its id. *)
SaveTicket(t) == tickets' = [id \in DOMAIN tickets \cup {t.id} |-> IF id = t.id THEN t ELSE tickets[id]]

(* ------------------------------------------------------------------ *)
(* Inputs of the requests                                              *)
(* ------------------------------------------------------------------ *)
(* A group whose sale id names no row of the sales table. *)
GroupNoSale == Criteria(1, 2, 1, FALSE, "B", "hall", 2)

RequestCriteria == {GroupA, GroupB, GroupNoSale}
Quantities == 1..MaxQty

(* ------------------------------------------------------------------ *)
(* TicketService.PurchaseTicketFromGroup                               *)
(* ------------------------------------------------------------------ *)
(* The request arrives; saleRepo.GetByID and the sale window check. *)
PurchaseTicketFromGroup_CheckSale(r) ==
    /\ req[r].pc = "idle"
    /\ \E c \in RequestCriteria, q \in Quantities :
          LET rq == [req[r] EXCEPT !.op = "group", !.userID = r, !.crit = c, !.quantity = q]
              rn == [rq EXCEPT !.now = clock]
          IN IF c.saleID \notin DOMAIN sales
             THEN Return(r, rq, "sale not found")
             ELSE IF SaleNotActive(sales[c.saleID], rn.now)
                  THEN Return(r, rn, "sale is not currently active")
                  ELSE Goto(r, rn, "event")
    /\ UNCHANGED <<tickets, locks, purchased, payments, sales, events, clock>>
    /\ UNCHANGED <<transferVars, sellerVars>>

(* PurchaseTicketFromGroup_CheckEvent without the approval check. *)
PurchaseTicketFromGroup_CheckEvent_AnyStatus(r) ==
    /\ req[r].pc = "event"
    /\ IF req[r].crit.eventID \notin DOMAIN events
       THEN Return(r, req[r], "event not found")
       ELSE Goto(r, req[r], "lock")
    /\ UNCHANGED <<tickets, locks, purchased, payments, sales, events, clock>>
    /\ UNCHANGED <<transferVars, sellerVars>>

(* eventRepo.GetByID and the approval check. *)
PurchaseTicketFromGroup_CheckEvent(r) ==
    /\ req[r].pc = "event"
    /\ IF req[r].crit.eventID \notin DOMAIN events
       THEN Return(r, req[r], "event not found")
       ELSE IF events[req[r].crit.eventID].status # EventStatusApproved
            THEN Return(r, req[r], "event is not approved for ticket sales")
            ELSE Goto(r, req[r], "lock")
    /\ UNCHANGED <<tickets, locks, purchased, payments, sales, events, clock>>
    /\ UNCHANGED <<transferVars, sellerVars>>

(* ticketRepository.FindAndLockAvailableTickets, inside its transaction: *)
(* SELECT ... WHERE <criteria> AND is_sold = false AND is_held = false   *)
(* FOR UPDATE LIMIT quantity.  The statement waits for rows another      *)
(* transaction holds; it returns up to quantity rows, here in id order.  *)
FindAndLockAvailableTickets_Select(r) ==
    /\ req[r].pc = "lock"
    /\ LET matching == {id \in DOMAIN tickets : MatchesAvailable(tickets[id], req[r].crit)}
           n == Min(req[r].quantity, Cardinality(matching))
       IN \/ \E S \in SUBSET matching :
                /\ Cardinality(S) = n
                /\ \A id \in S : locks[id] = 0
                /\ locks' = [id \in DOMAIN locks |-> IF id \in S THEN r ELSE locks[id]]
                /\ LET ids == SetToSeq(S)
                   IN req' = [req EXCEPT ![r].pc = "locked",
                                         ![r].avail = [k \in 1..Len(ids) |-> tickets[ids[k]]]]
          \/ \* the statement fails: the transaction rolls back, the error comes back
             /\ Return(r, req[r], "failed to lock tickets")
             /\ UNCHANGED locks
    /\ UNCHANGED <<tickets, purchased, payments, sales, events, clock>>
    /\ UNCHANGED <<transferVars, sellerVars>>

(* FindAndLockAvailableTickets_Commit refusing only an empty list. *)
FindAndLockAvailableTickets_Commit_Partial(r) ==
    /\ req[r].pc = "locked"
    /\ locks' = [id \in DOMAIN locks |-> IF locks[id] = r THEN 0 ELSE locks[id]]
    /\ IF Len(req[r].avail) = 0
       THEN Return(r, req[r], "not enough tickets available")
       ELSE Goto(r, req[r], "pay")
    /\ UNCHANGED <<tickets, purchased, payments, sales, events, clock>>
    /\ UNCHANGED <<transferVars, sellerVars>>

(* The transaction of FindAndLockAvailableTickets ends when its closure  *)
(* returns: the commit releases the row locks, and the rows come back to *)
(* the service, which compares their number with the quantity.           *)
FindAndLockAvailableTickets_Commit(r) ==
    /\ req[r].pc = "locked"
    /\ locks' = [id \in DOMAIN locks |-> IF locks[id] = r THEN 0 ELSE locks[id]]
    /\ IF Len(req[r].avail) < req[r].quantity
       THEN Return(r, req[r], "not enough tickets available")
       ELSE Goto(r, req[r], "pay")
    /\ UNCHANGED <<tickets, purchased, payments, sales, events, clock>>
    /\ UNCHANGED <<transferVars, sellerVars>>

(* ------------------------------------------------------------------ *)
(* PaymentService.ProcessPayment                                       *)
(* ------------------------------------------------------------------ *)
(* totalAmount: req.Price * quantity (group), ticket.Price * quantity (legacy). *)
TotalAmount(rq) ==
    IF rq.op = "group" THEN rq.crit.price * rq.quantity
    ELSE rq.avail[1].price * rq.quantity

(* The amount check and paymentRepo.Create of the Pending record. *)
ProcessPayment_Create(r) ==
    /\ req[r].pc = "pay"
    /\ IF TotalAmount(req[r]) <= 0
       THEN /\ Return(r, req[r], "payment processing failed: payment amount must be greater than 0")
            /\ UNCHANGED payments
       ELSE \E dbOK \in BOOLEAN :
               IF ~dbOK
               THEN /\ Return(r, req[r], "payment processing failed: failed to create payment record")
                    /\ UNCHANGED payments
               ELSE /\ payments' = Append(payments,
                            Payment(req[r].userID, TotalAmount(req[r]), PaymentStatusPending))
                    /\ req' = [req EXCEPT ![r].pc = "gateway", ![r].payID = Len(payments) + 1]
    /\ UNCHANGED <<tickets, locks, purchased, sales, events, clock>>
    /\ UNCHANGED <<transferVars, sellerVars>>

(* ProcessMockPayment going on to the sold-marking whatever the gateway said. *)
ProcessMockPayment_IgnoreDecline(r) ==
    /\ req[r].pc = "gateway"
    /\ \E success \in BOOLEAN, dbOK \in BOOLEAN :
          LET status == IF success THEN PaymentStatusCompleted ELSE PaymentStatusFailed
              rq == [req[r] EXCEPT !.gateway = IF success THEN "success" ELSE "failure"]
          IN IF ~dbOK
             THEN /\ Return(r, rq, "payment processing failed: failed to update payment status")
                  /\ UNCHANGED payments
             ELSE /\ payments' = [payments EXCEPT ![rq.payID].status = status]
                  /\ req' = [req EXCEPT ![r] = [rq EXCEPT !.pc = "mark", !.i = 1]]
    /\ UNCHANGED <<tickets, locks, purchased, sales, events, clock>>
    /\ UNCHANGED <<transferVars, sellerVars>>

(* PaymentService.processMockPayment: the simulated gateway answers      *)
(* success or failure, the outcome is written with paymentRepo.Update,   *)
(* and the purchase goes on only with a Completed response.              *)
ProcessMockPayment(r) ==
    /\ req[r].pc = "gateway"
    /\ \E success \in BOOLEAN, dbOK \in BOOLEAN :
          LET status == IF success THEN PaymentStatusCompleted ELSE PaymentStatusFailed
              rq == [req[r] EXCEPT !.gateway = IF success THEN "success" ELSE "failure"]
          IN IF ~dbOK
             THEN /\ Return(r, rq, "payment processing failed: failed to update payment status")
                  /\ UNCHANGED payments
             ELSE /\ payments' = [payments EXCEPT ![rq.payID].status = status]
                  /\ IF status = PaymentStatusCompleted
                     THEN req' = [req EXCEPT ![r] = [rq EXCEPT !.pc = "mark", !.i = 1]]
                     ELSE Return(r, rq, "payment failed")
    /\ UNCHANGED <<tickets, locks, purchased, sales, events, clock>>
    /\ UNCHANGED <<transferVars, sellerVars>>

(* The loop body, first half: ticket.IsSold = true; ticketRepo.Update(ticket). *)
PurchaseTicketFromGroup_MarkSold(r) ==
    /\ req[r].op = "group"
    /\ req[r].pc = "mark"
    /\ \E dbOK \in BOOLEAN :
          IF ~dbOK
          THEN /\ Return(r, req[r], "failed to update ticket status")
               /\ UNCHANGED tickets
          ELSE /\ SaveTicket([req[r].avail[req[r].i] EXCEPT !.isSold = TRUE])
               /\ Goto(r, req[r], "create")
    /\ UNCHANGED <<locks, purchased, payments, sales, events, clock>>
    /\ UNCHANGED <<transferVars, sellerVars>>

(* The loop body, second half: purchasedTicketRepo.Create, then the next *)
(* unit or the response.                                                 *)
PurchaseTicketFromGroup_CreatePurchased(r) ==
    /\ req[r].op = "group"
    /\ req[r].pc = "create"
    /\ \E dbOK \in BOOLEAN :
          IF ~dbOK
          THEN /\ Return(r, req[r], "failed to create purchased ticket record")
               /\ UNCHANGED purchased
          ELSE /\ purchased' = Append(purchased,
                      PurchasedTicket(req[r].avail[req[r].i], req[r].userID))
               /\ IF req[r].i < req[r].quantity
                  THEN req' = [req EXCEPT ![r].pc = "mark", ![r].i = req[r].i + 1]
                  ELSE Return(r, req[r], "ok")
    /\ UNCHANGED <<tickets, locks, payments, sales, events, clock>>
    /\ UNCHANGED <<transferVars, sellerVars>>

(* ------------------------------------------------------------------ *)
(* TicketService.PurchaseTicket (legacy, one ticket id)                *)
(* ------------------------------------------------------------------ *)
(* The request arrives; ticketRepo.GetByIDForUpdate outside of any      *)
(* transaction (the statement's lock ends with the statement), then the *)
(* availability check on the row read.                                  *)
PurchaseTicket_GetByIDForUpdate(r) ==
    /\ req[r].pc = "idle"
    /\ \E id \in 1..(MaxTickets + 1), q \in Quantities :
          LET rq == [req[r] EXCEPT !.op = "legacy", !.userID = r, !.quantity = q]
          IN IF id \notin DOMAIN tickets
             THEN Return(r, rq, "ticket not found")
             ELSE /\ locks[id] = 0
                  /\ IF tickets[id].isSold \/ tickets[id].isHeld
                     THEN Return(r, rq, "ticket is not available")
                     ELSE Goto(r, [rq EXCEPT !.avail = <<tickets[id]>>], "lsale")
    /\ UNCHANGED <<tickets, locks, purchased, payments, sales, events, clock>>
    /\ UNCHANGED <<transferVars, sellerVars>>

(* saleRepo.GetByID(ticket.SaleID), the sale window check, the quantity check. *)
PurchaseTicket_CheckSale(r) ==
    /\ req[r].pc = "lsale"
    /\ LET sid == req[r].avail[1].saleID
           rn == [req[r] EXCEPT !.now = clock]
       IN IF sid \notin DOMAIN sales
          THEN Return(r, req[r], "sale not found")
          ELSE IF SaleNotActive(sales[sid], rn.now)
               THEN Return(r, rn, "sale is not currently active")
               ELSE IF rn.quantity > 1
                    THEN Return(r, rn, "bulk purchase not implemented for individual tickets")
                    ELSE Goto(r, rn, "pay")
    /\ UNCHANGED <<tickets, locks, purchased, payments, sales, events, clock>>
    /\ UNCHANGED <<transferVars, sellerVars>>

(* ticket.IsSold = true; ticketRepo.Update(ticket). *)
PurchaseTicket_MarkSold(r) ==
    /\ req[r].op = "legacy"
    /\ req[r].pc = "mark"
    /\ \E dbOK \in BOOLEAN :
          IF ~dbOK
          THEN /\ Return(r, req[r], "failed to update ticket status")
               /\ UNCHANGED tickets
          ELSE /\ SaveTicket([req[r].avail[1] EXCEPT !.isSold = TRUE])
               /\ Goto(r, req[r], "create")
    /\ UNCHANGED <<locks, purchased, payments, sales, events, clock>>
    /\ UNCHANGED <<transferVars, sellerVars>>

(* purchasedTicketRepo.Create and the response. *)
PurchaseTicket_CreatePurchased(r) ==
    /\ req[r].op = "legacy"
    /\ req[r].pc = "create"
    /\ \E dbOK \in BOOLEAN :
          IF ~dbOK
          THEN /\ Return(r, req[r], "failed to create purchased ticket record")
               /\ UNCHANGED purchased
          ELSE /\ purchased' = Append(purchased, PurchasedTicket(req[r].avail[1], req[r].userID))
               /\ Return(r, req[r], "ok")
    /\ UNCHANGED <<tickets, locks, payments, sales, events, clock>>
    /\ UNCHANGED <<transferVars, sellerVars>>

(* ------------------------------------------------------------------ *)
(* The clock                                                           *)
(* ------------------------------------------------------------------ *)
Tick ==
    /\ clock < MaxTime
    /\ clock' = clock + 1
    /\ UNCHANGED <<tickets, locks, purchased, payments, sales, events, req>>
    /\ UNCHANGED <<transferVars, sellerVars>>

Next ==
    \/ Tick
    \/ \E r \in Reqs : PurchaseTicketFromGroup_CheckSale(r)
    \/ \E r \in Reqs : PurchaseTicketFromGroup_CheckEvent(r)
    \/ \E r \in Reqs : FindAndLockAvailableTickets_Select(r)
    \/ \E r \in Reqs : FindAndLockAvailableTickets_Commit(r)
    \/ \E r \in Reqs : ProcessPayment_Create(r)
    \/ \E r \in Reqs : ProcessMockPayment(r)
    \/ \E r \in Reqs : PurchaseTicketFromGroup_MarkSold(r)
    \/ \E r \in Reqs : PurchaseTicketFromGroup_CreatePurchased(r)
    \/ \E r \in Reqs : PurchaseTicket_GetByIDForUpdate(r)
    \/ \E r \in Reqs : PurchaseTicket_CheckSale(r)
    \/ \E r \in Reqs : PurchaseTicket_MarkSold(r)
    \/ \E r \in Reqs : PurchaseTicket_CreatePurchased(r)

Spec == Init /\ [][Next]_vars

(* The purchases on a table that holds a held unit: ticket MaxTickets of  *)
(* the initial rows has is_held = true.                                  *)
InitHeld ==
    /\ tickets = [InitTickets EXCEPT ![MaxTickets].isHeld = TRUE]
    /\ locks = [id \in TicketIDs |-> 0]
    /\ purchased = <<>>
    /\ payments = <<>>
    /\ sales = (1 :> [startDate |-> 1, endDate |-> 2, eventID |-> 1])
    /\ events = (1 :> [status |-> EventStatusApproved, sellerID |-> 1])
    /\ clock = 0
    /\ req = [r \in Reqs |-> IdleReq]
    /\ transfers = <<>>
    /\ doneTransfers = <<>>
    /\ treq = [r \in TReqs |-> IdleTReq]
    /\ sreq = IdleSReq
    /\ ticketSeq = MaxTickets
    /\ saleSeq = 1

SpecHeld == InitHeld /\ [][Next]_vars

(* ------------------------------------------------------------------ *)
(* The transfer service.  A request slot serves one request at a time   *)
(* and takes the next one when the previous one has returned.           *)
(* ------------------------------------------------------------------ *)
(* The first MaxPurchased tickets are sold; purchased ticket k is ticket *)
(* k's, owned by user ((k - 1) mod MaxUsers) + 1.                       *)
SoldAtStart == 1..Min(MaxPurchased, MaxTickets)

InitPurchased ==
    [k \in SoldAtStart |->
        PurchasedTicket(Ticket(k, IF k = 1 THEN GroupA ELSE GroupB, TRUE, FALSE),
                        ((k - 1) % MaxUsers) + 1)]

InitTransfer ==
    /\ tickets = [id \in TicketIDs |->
                     Ticket(id, IF id = 1 THEN GroupA ELSE GroupB, id \in SoldAtStart, FALSE)]
    /\ locks = [id \in TicketIDs |-> 0]
    /\ purchased = InitPurchased
    /\ payments = <<>>
    /\ sales = (1 :> [startDate |-> 1, endDate |-> 2, eventID |-> 1])
    /\ events = (1 :> [status |-> EventStatusApproved, sellerID |-> 1])
    /\ clock = 0
    /\ req = [r \in Reqs |-> IdleReq]
    /\ transfers = <<>>
    /\ doneTransfers = <<>>
    /\ treq = [r \in TReqs |-> IdleTReq]
    /\ sreq = IdleSReq
    /\ ticketSeq = MaxTickets
    /\ saleSeq = 1

(* The request returns: its locals are gone, its response is with the caller. *)
TReturn(r, rq, msg) ==
    treq' = [treq EXCEPT ![r] = [IdleTReq EXCEPT !.op = rq.op, !.pc = "done", !.result = msg]]

TGoto(r, rq, pc) == treq' = [treq EXCEPT ![r] = [rq EXCEPT !.pc = pc]]

Free(r) == treq[r].pc \in {"idle", "done"}

(* The e-mail addresses a request may name: user u's address is u, and 0 *)
(* is the address of no user.                                            *)
Emails == 0..MaxUsers

(* Initiate requests that passed their checks and have yet to insert. *)
Inserting == {q \in TReqs : treq[q].op = "initiate" /\ treq[q].pc = "create"}

(* InitiateTransfer_Check without the ownership check. *)
InitiateTransfer_Check_NoOwner(r) ==
    /\ Free(r)
    /\ Len(transfers) + Cardinality(Inserting) < MaxTransfers
    /\ \E fromUserID \in Users, email \in Emails, ptID \in 1..(MaxPurchased + 1), dbOK \in BOOLEAN :
          LET rq == [IdleTReq EXCEPT !.op = "initiate", !.userID = fromUserID, !.id = ptID]
          IN IF ptID \notin DOMAIN purchased
             THEN TReturn(r, rq, "purchased ticket not found")
             ELSE IF FALSE
                  THEN TReturn(r, rq, "unauthorized to transfer this ticket")
                  ELSE IF purchased[ptID].isUsed
                       THEN TReturn(r, rq, "cannot transfer used ticket")
                       ELSE IF ~dbOK
                            THEN TReturn(r, rq, "failed to find recipient user")
                            ELSE IF email \notin Users
                                 THEN TReturn(r, rq, "recipient user not found")
                                 ELSE IF email = fromUserID
                                      THEN TReturn(r, rq, "cannot transfer ticket to yourself")
                                      ELSE TGoto(r, [rq EXCEPT !.toUserID = email], "create")
    /\ UNCHANGED <<purchased, transfers, doneTransfers>>
    /\ UNCHANGED <<purchaseVars, sellerVars>>

(* TransferService.InitiateTransfer: purchasedTicketRepo.GetByID, the    *)
(* ownership and used checks, userRepo.GetByEmail (which can fail for    *)
(* another reason than a missing row), the self check.                   *)
InitiateTransfer_Check(r) ==
    /\ Free(r)
    /\ Len(transfers) + Cardinality(Inserting) < MaxTransfers
    /\ \E fromUserID \in Users, email \in Emails, ptID \in 1..(MaxPurchased + 1), dbOK \in BOOLEAN :
          LET rq == [IdleTReq EXCEPT !.op = "initiate", !.userID = fromUserID, !.id = ptID]
          IN IF ptID \notin DOMAIN purchased
             THEN TReturn(r, rq, "purchased ticket not found")
             ELSE IF purchased[ptID].userID # fromUserID
                  THEN TReturn(r, rq, "unauthorized to transfer this ticket")
                  ELSE IF purchased[ptID].isUsed
                       THEN TReturn(r, rq, "cannot transfer used ticket")
                       ELSE IF ~dbOK
                            THEN TReturn(r, rq, "failed to find recipient user")
                            ELSE IF email \notin Users
                                 THEN TReturn(r, rq, "recipient user not found")
                                 ELSE IF email = fromUserID
                                      THEN TReturn(r, rq, "cannot transfer ticket to yourself")
                                      ELSE TGoto(r, [rq EXCEPT !.toUserID = email], "create")
    /\ UNCHANGED <<purchased, transfers, doneTransfers>>
    /\ UNCHANGED <<purchaseVars, sellerVars>>

(* transferRepo.CreateActive of the Pending record, and the response. *)
InitiateTransfer_Create(r) ==
    /\ treq[r].op = "initiate"
    /\ treq[r].pc = "create"
    /\ \E dbOK \in BOOLEAN :
          IF ~dbOK
          THEN /\ TReturn(r, treq[r], "failed to create transfer request")
               /\ UNCHANGED transfers
          ELSE /\ transfers' = Append(transfers,
                      ActiveTicketTransfer(treq[r].userID, treq[r].toUserID, treq[r].id,
                                           TransferStatusPending))
               /\ TReturn(r, treq[r], "ok")
    /\ UNCHANGED <<purchased, doneTransfers>>
    /\ UNCHANGED <<purchaseVars, sellerVars>>

(* CheckTransfer without the status check. *)
CheckTransfer_AnyStatus(r, op, verb) ==
    /\ treq[r].pc \in {"idle", "done"}
    /\ \E transferID \in 1..(MaxTransfers + 1), userID \in Users :
          LET rq == [IdleTReq EXCEPT !.op = op, !.userID = userID, !.id = transferID]
          IN IF transferID \notin DOMAIN transfers
             THEN TReturn(r, rq, "transfer not found")
             ELSE IF transfers[transferID].toUserID # userID
                  THEN TReturn(r, rq, "unauthorized to " \o verb \o " this transfer")
                  ELSE TGoto(r, [rq EXCEPT !.transfer = transfers[transferID]], "update")
    /\ UNCHANGED <<purchased, transfers, doneTransfers>>
    /\ UNCHANGED <<purchaseVars, sellerVars>>

(* The head of AcceptTransfer and of RejectTransfer: transferRepo.GetActiveByID, *)
(* the recipient check, the status check.                                        *)
CheckTransfer(r, op, verb) ==
    /\ Free(r)
    /\ \E transferID \in 1..(MaxTransfers + 1), userID \in Users :
          LET rq == [IdleTReq EXCEPT !.op = op, !.userID = userID, !.id = transferID]
          IN IF transferID \notin DOMAIN transfers
             THEN TReturn(r, rq, "transfer not found")
             ELSE IF transfers[transferID].toUserID # userID
                  THEN TReturn(r, rq, "unauthorized to " \o verb \o " this transfer")
                  ELSE IF transfers[transferID].status # TransferStatusPending
                       THEN TReturn(r, rq, "transfer is not in pending status")
                       ELSE TGoto(r, [rq EXCEPT !.transfer = transfers[transferID]], "update")
    /\ UNCHANGED <<purchased, transfers, doneTransfers>>
    /\ UNCHANGED <<purchaseVars, sellerVars>>

(* transfer.Status = status; transferRepo.UpdateActive(transfer): db.Save *)
(* writes every column of the row the request read.                       *)
UpdateActive(r, status, nextpc) ==
    \E dbOK \in BOOLEAN :
       IF ~dbOK
       THEN /\ TReturn(r, treq[r], "failed to update transfer status")
            /\ UNCHANGED transfers
       ELSE /\ transfers' = [transfers EXCEPT ![treq[r].id] =
                                [treq[r].transfer EXCEPT !.status = status]]
            /\ IF nextpc = "done"
               THEN TReturn(r, treq[r], "ok")
               ELSE TGoto(r, treq[r], nextpc)

AcceptTransfer_Check(r) == CheckTransfer(r, "accept", "accept")

AcceptTransfer_UpdateActive(r) ==
    /\ treq[r].op = "accept"
    /\ treq[r].pc = "update"
    /\ UpdateActive(r, TransferStatusAccepted, "getTicket")
    /\ UNCHANGED <<purchased, doneTransfers>>
    /\ UNCHANGED <<purchaseVars, sellerVars>>

(* purchasedTicketRepo.GetByID(transfer.PurchasedTicketID) *)
AcceptTransfer_GetTicket(r) ==
    /\ treq[r].op = "accept"
    /\ treq[r].pc = "getTicket"
    /\ \E dbOK \in BOOLEAN :
          IF ~dbOK \/ treq[r].transfer.purchasedTicketID \notin DOMAIN purchased
          THEN TReturn(r, treq[r], "failed to find purchased ticket")
          ELSE TGoto(r, [treq[r] EXCEPT !.ticket = purchased[treq[r].transfer.purchasedTicketID]],
                     "updateTicket")
    /\ UNCHANGED <<purchased, transfers, doneTransfers>>
    /\ UNCHANGED <<purchaseVars, sellerVars>>

(* purchasedTicket.UserID = transfer.ToUserID; purchasedTicketRepo.Update: *)
(* db.Save writes every column of the row the request read.                *)
AcceptTransfer_UpdateTicket(r) ==
    /\ treq[r].op = "accept"
    /\ treq[r].pc = "updateTicket"
    /\ \E dbOK \in BOOLEAN :
          IF ~dbOK
          THEN /\ TReturn(r, treq[r], "failed to transfer ticket ownership")
               /\ UNCHANGED purchased
          ELSE /\ purchased' = [purchased EXCEPT ![treq[r].transfer.purchasedTicketID] =
                                   [treq[r].ticket EXCEPT !.userID = treq[r].transfer.toUserID]]
               /\ TGoto(r, treq[r], "createDone")
    /\ UNCHANGED <<transfers, doneTransfers>>
    /\ UNCHANGED <<purchaseVars, sellerVars>>

(* AcceptTransfer_CreateDone returning the error of CreateDone. *)
AcceptTransfer_CreateDone_Fails(r) ==
    /\ treq[r].op = "accept"
    /\ treq[r].pc = "createDone"
    /\ \E dbOK \in BOOLEAN :
          IF ~dbOK
          THEN /\ UNCHANGED doneTransfers
               /\ TReturn(r, treq[r], "failed to record transfer")
          ELSE /\ doneTransfers' = Append(doneTransfers, DoneTicketTransfer(treq[r].transfer))
               /\ TReturn(r, treq[r], "ok")
    /\ UNCHANGED <<purchased, transfers>>
    /\ UNCHANGED <<purchaseVars, sellerVars>>

(* transferRepo.CreateDone: its error is dropped, the accept returns nil. *)
AcceptTransfer_CreateDone(r) ==
    /\ treq[r].op = "accept"
    /\ treq[r].pc = "createDone"
    /\ \E dbOK \in BOOLEAN :
          IF ~dbOK
          THEN UNCHANGED doneTransfers
          ELSE doneTransfers' = Append(doneTransfers, DoneTicketTransfer(treq[r].transfer))
    /\ TReturn(r, treq[r], "ok")
    /\ UNCHANGED <<purchased, transfers>>
    /\ UNCHANGED <<purchaseVars, sellerVars>>

RejectTransfer_Check(r) == CheckTransfer(r, "reject", "reject")

RejectTransfer_UpdateActive(r) ==
    /\ treq[r].op = "reject"
    /\ treq[r].pc = "update"
    /\ UpdateActive(r, TransferStatusRejected, "done")
    /\ UNCHANGED <<purchased, doneTransfers>>
    /\ UNCHANGED <<purchaseVars, sellerVars>>

NextTransfer ==
    \/ \E r \in TReqs : InitiateTransfer_Check(r)
    \/ \E r \in TReqs : InitiateTransfer_Create(r)
    \/ \E r \in TReqs : AcceptTransfer_Check(r)
    \/ \E r \in TReqs : AcceptTransfer_UpdateActive(r)
    \/ \E r \in TReqs : AcceptTransfer_GetTicket(r)
    \/ \E r \in TReqs : AcceptTransfer_UpdateTicket(r)
    \/ \E r \in TReqs : AcceptTransfer_CreateDone(r)
    \/ \E r \in TReqs : RejectTransfer_Check(r)
    \/ \E r \in TReqs : RejectTransfer_UpdateActive(r)

SpecTransfer == InitTransfer /\ [][NextTransfer]_vars

(* ================================================================== *)
(* Properties of the purchase flow (specification Spec)                 *)
(* ================================================================== *)
(* The units of a group that were available in the initial state. *)
AvailableAtStart(c) ==
    Cardinality({id \in DOMAIN InitTickets : MatchesAvailable(InitTickets[id], c)})

Succeeded(r) == req[r].pc = "done" /\ req[r].result = "ok"

(* The rows of a purchased_tickets table whose source ticket is id. *)
PurchasedOf(p, id) == {k \in DOMAIN p : p[k].ticketID = id}

NoPurchaseRunning == \A r \in Reqs : req[r].pc \in {"idle", "done"}

RECURSIVE SumQuantity(_)
SumQuantity(R) ==
    IF R = {} THEN 0
    ELSE LET r == CHOOSE x \in R : TRUE
         IN req[r].quantity + SumQuantity(R \ {r})

(* C1: of two group purchase requests for quantity 1 of a group that had *)
(* exactly one available unit, never both succeed.                       *)
C1_NeverBothSucceed ==
    \A r1, r2 \in Reqs :
        (/\ r1 # r2
         /\ req[r1].op = "group" /\ req[r2].op = "group"
         /\ req[r1].crit = req[r2].crit
         /\ AvailableAtStart(req[r1].crit) = 1
         /\ req[r1].quantity = 1 /\ req[r2].quantity = 1)
        => ~(Succeeded(r1) /\ Succeeded(r2))

(* C2: for every group, the quantities of the group purchase requests   *)
(* that succeeded add up to no more than the units that were available  *)
(* when they started.                                                   *)
C2_NoOversell ==
    \A c \in RequestCriteria :
        SumQuantity({r \in Reqs : req[r].op = "group" /\ req[r].crit = c /\ Succeeded(r)})
            <= AvailableAtStart(c)

(* C3: every ticket has at most one purchased ticket row, and when no    *)
(* purchase is under way a ticket is sold iff it has exactly one.        *)
C3_OnePurchasedTicketPerSoldUnit ==
    \A id \in DOMAIN tickets :
        /\ Cardinality(PurchasedOf(purchased, id)) <= 1
        /\ NoPurchaseRunning =>
              (tickets[id].isSold <=> Cardinality(PurchasedOf(purchased, id)) = 1)

(* C4: a group purchase whose lock returned fewer rows than the quantity *)
(* returns "not enough tickets available" in that step, which changes no *)
(* ticket, purchased ticket or payment and leaves no lock with the       *)
(* request; the request never acts again.                                *)
C4_InsufficientInventory ==
    [][\A r \in Reqs :
          /\ (req[r].pc = "locked" /\ Len(req[r].avail) < req[r].quantity /\ req'[r] # req[r])
                => /\ req'[r].pc = "done"
                   /\ req'[r].result = "not enough tickets available"
                   /\ tickets' = tickets
                   /\ purchased' = purchased
                   /\ payments' = payments
                   /\ \A id \in DOMAIN locks' : locks'[id] # r
          /\ req[r].pc = "done" => req'[r] = req[r]]_vars

(* A request for two units found one, and was refused. *)
C4_Witness ==
    \E r \in Reqs :
        /\ req[r].result = "not enough tickets available"
        /\ req[r].quantity = 2
        /\ Len(req[r].avail) = 1

(* C5 as stated: a purchase the gateway declined has failed, created no  *)
(* purchased ticket, and its payment record is Failed.                   *)
C5_DeclinedEndsFailed ==
    \A r \in Reqs :
        req[r].gateway = "failure"
            => /\ req[r].pc = "done"
               /\ req[r].result # "ok"
               /\ \A k \in DOMAIN purchased : purchased[k].userID # req[r].userID
               /\ payments[req[r].payID].status = PaymentStatusFailed

(* C5 amended: in the step in which the gateway declines, the purchase   *)
(* returns an error, no ticket and no purchased ticket changes, and the  *)
(* payment record becomes Failed, or stays Pending when the write of the *)
(* outcome fails; afterwards the request acts no more and its payment    *)
(* record is not written again.                                          *)
C5_DeclinedFailsCleanly ==
    [][\A r \in Reqs :
          /\ (req[r].pc = "gateway" /\ req'[r].gateway = "failure")
                => /\ req'[r].pc = "done"
                   /\ tickets' = tickets
                   /\ purchased' = purchased
                   /\ \/ /\ req'[r].result = "payment failed"
                         /\ payments'[req[r].payID].status = PaymentStatusFailed
                      \/ /\ req'[r].result = "payment processing failed: failed to update payment status"
                         /\ payments'[req[r].payID].status = PaymentStatusPending
          /\ req[r].pc = "done"
                => /\ req'[r] = req[r]
                   /\ req[r].payID # 0 => payments'[req[r].payID] = payments[req[r].payID]]_vars

(* The gateway declined a group purchase and a legacy purchase. *)
C5_Witness ==
    \E r1, r2 \in Reqs :
        /\ req[r1].op = "group" /\ req[r2].op = "legacy"
        /\ req[r1].gateway = "failure" /\ req[r2].gateway = "failure"
        /\ req[r1].result = "payment failed"
        /\ payments[req[r1].payID].status = PaymentStatusFailed
        /\ payments[req[r2].payID].status = PaymentStatusFailed

(* The sale window a request is checked against, once it is known. *)
SaleOf(rq) == IF rq.op = "group" THEN rq.crit.saleID ELSE rq.avail[1].saleID

(* C6: the sale check of a purchase (group or legacy) made at a time     *)
(* before the start or after the end of the window returns "sale is not  *)
(* currently active" and changes no ticket, purchased ticket or payment; *)
(* made at a time from start to end, both included, it passes; and a     *)
(* purchase succeeds only with a check made inside the window.           *)
C6_SaleWindow ==
    /\ [](\A r \in Reqs :
             Succeeded(r) =>
                /\ sales[SaleOf(req[r])].startDate <= req[r].now
                /\ req[r].now <= sales[SaleOf(req[r])].endDate)
    /\ [][\A r \in Reqs :
             (/\ req'[r] # req[r]
              /\ \/ req[r].pc = "idle" /\ req'[r].op = "group"
                 \/ req[r].pc = "lsale"
              /\ SaleOf(req'[r]) \in DOMAIN sales)
             => LET sale == sales[SaleOf(req'[r])]
                IN IF clock < sale.startDate \/ clock > sale.endDate
                   THEN /\ req'[r].pc = "done"
                        /\ req'[r].result = "sale is not currently active"
                        /\ tickets' = tickets
                        /\ purchased' = purchased
                        /\ payments' = payments
                   ELSE /\ req'[r].result # "sale is not currently active"
                        /\ req'[r].now = clock
                        /\ \/ req'[r].pc \in {"event", "pay"}
                           \/ req'[r].op = "legacy" /\ req'[r].quantity > 1]_vars

(* A purchase checked at the last instant of the window succeeded, and  *)
(* one checked at the next instant was refused.                         *)
C6_Witness ==
    \E r1, r2 \in Reqs :
        /\ Succeeded(r1)
        /\ req[r1].now = sales[1].endDate
        /\ req[r2].result = "sale is not currently active"
        /\ req[r2].now = sales[1].endDate + 1

(* C7: when a group purchase returns an error from its sold-marking loop, *)
(* every unit of the request is then sold iff it has a purchased ticket,  *)
(* and the units of the request are then all sold or all unsold.          *)
C7_RollbackOnPersistenceFailure ==
    [][\A r \in Reqs :
          (/\ req[r].op = "group"
           /\ req[r].pc \in {"mark", "create"}
           /\ req'[r].pc = "done"
           /\ req'[r].result # "ok")
          => LET units == {req[r].avail[k].id : k \in 1..req[r].quantity}
                 sold == {id \in units : tickets'[id].isSold}
             IN /\ \A id \in units : tickets'[id].isSold <=> PurchasedOf(purchased', id) # {}
                /\ sold = {} \/ sold = units]_vars

(* ================================================================== *)
(* Properties of the transfer service (specification SpecTransfer)      *)
(* ================================================================== *)
PendingFor(ptID) ==
    {id \in DOMAIN transfers :
        /\ transfers[id].purchasedTicketID = ptID
        /\ transfers[id].status = TransferStatusPending}

(* C8: no purchased ticket has two Pending transfer records. *)
C8_OnePendingTransferPerTicket ==
    \A ptID \in DOMAIN purchased : Cardinality(PendingFor(ptID)) <= 1

(* C9: an accept or a reject goes past its checks only with the caller   *)
(* the recipient of the record and the record Pending as read; one that  *)
(* does not go past them returns an error and changes no transfer        *)
(* record, purchased ticket or history row; "ok" is returned only by a   *)
(* request that went past them, and it leaves the record out of Pending;  *)
(* and a record that left Pending never comes back to it, so that a call *)
(* made after a completed accept or reject of the record fails.          *)
C9_AcceptRejectPrecondition ==
    [][/\ \A r \in TReqs :
             /\ (treq[r].pc \in {"idle", "done"} /\ treq'[r] # treq[r]
                 /\ treq'[r].op \in {"accept", "reject"})
                   => /\ purchased' = purchased
                      /\ transfers' = transfers
                      /\ doneTransfers' = doneTransfers
                      /\ IF treq'[r].pc = "done"
                         THEN treq'[r].result # "ok"
                         ELSE /\ treq'[r].id \in DOMAIN transfers
                              /\ treq'[r].transfer = transfers[treq'[r].id]
                              /\ transfers[treq'[r].id].toUserID = treq'[r].userID
                              /\ transfers[treq'[r].id].status = TransferStatusPending
             /\ (treq[r].op \in {"accept", "reject"} /\ treq'[r] # treq[r]
                 /\ treq'[r].pc = "done" /\ treq'[r].result = "ok" /\ treq'[r].op = treq[r].op)
                   => /\ treq[r].pc \in {"update", "createDone"}
                      /\ treq[r].transfer.toUserID = treq[r].userID
                      /\ transfers'[treq[r].id].status # TransferStatusPending
       /\ \A id \in DOMAIN transfers :
             transfers[id].status # TransferStatusPending
                => transfers'[id].status # TransferStatusPending]_vars

(* An accept returned "ok", and a later reject of the record was refused. *)
C9_Witness ==
    \E r1, r2 \in TReqs :
        /\ treq[r1].op = "accept" /\ treq[r1].result = "ok"
        /\ treq[r2].op = "reject" /\ treq[r2].result = "transfer is not in pending status"
        /\ Len(transfers) = 1
        /\ transfers[1].status = TransferStatusAccepted

(* C10: an accept that returns an error after its checks does not leave  *)
(* the record Accepted.                                                  *)
C10_AcceptAtomic ==
    [][\A r \in TReqs :
          (/\ treq[r].op = "accept"
           /\ treq[r].pc \in {"update", "getTicket", "updateTicket"}
           /\ treq'[r].pc = "done"
           /\ treq'[r].result # "ok")
          => transfers'[treq[r].id].status # TransferStatusAccepted]_vars

(* ================================================================== *)
(* Further properties of the transfer service (SpecTransfer)            *)
(* ================================================================== *)
TerminalStatuses == {TransferStatusAccepted, TransferStatusRejected, TransferStatusCancelled}

(* The history rows an accept of the record id appends. *)
DoneRowsOf(id) ==
    {k \in DOMAIN doneTransfers : doneTransfers[k] = DoneTicketTransfer(transfers[id])}

(* The records whose accept appends the same history row as record id's. *)
SameTransferAs(id) ==
    {j \in DOMAIN transfers : DoneTicketTransfer(transfers[j]) = DoneTicketTransfer(transfers[id])}

(* C11: a transfer record whose status is Accepted, Rejected or Cancelled *)
(* keeps that status in every step, and the accepts of a record append   *)
(* at most one history row for it.                                       *)
C11_TerminalStatusFinal ==
    /\ [][\A id \in DOMAIN transfers :
             transfers[id].status \in TerminalStatuses
                => transfers'[id].status = transfers[id].status]_vars
    /\ [](\A id \in DOMAIN transfers :
             Cardinality(DoneRowsOf(id)) <= Cardinality(SameTransferAs(id)))

C20_OwnerFrame ==
    [][/\ \A k \in DOMAIN purchased :
             purchased'[k].userID # purchased[k].userID
                => \E r \in TReqs :
                      /\ treq[r].op = "accept" /\ treq'[r] # treq[r]
                      /\ transfers[treq[r].id].purchasedTicketID = k
                      /\ purchased'[k].userID = transfers[treq[r].id].toUserID
       /\ \A r \in TReqs :
             (treq[r].op = "reject" /\ treq[r].pc = "update" /\ treq'[r] # treq[r])
                => /\ purchased' = purchased
                   /\ doneTransfers' = doneTransfers
                   /\ \/ transfers' = transfers
                      \/ /\ transfers[treq[r].id].status = TransferStatusPending
                         /\ transfers' = [transfers EXCEPT
                                             ![treq[r].id].status = TransferStatusRejected]]_vars

(* ================================================================== *)
(* Further properties of the purchase flow (Spec)                       *)
(* ================================================================== *)
(* C13: a group purchase that has locked its units holds their row locks *)
(* through the payment and the sold-marking.                             *)
C13_LockHeldUntilCommit ==
    \A r \in Reqs :
        (req[r].op = "group" /\ req[r].pc \in {"pay", "gateway", "mark", "create"})
            => \A k \in 1..Len(req[r].avail) : locks[req[r].avail[k].id] = r

(* C14: two legacy purchases of the same ticket id never both succeed.   *)
C14_LegacyNeverBothSucceed ==
    \A r1, r2 \in Reqs :
        (/\ r1 # r2
         /\ req[r1].op = "legacy" /\ req[r2].op = "legacy"
         /\ Succeeded(r1) /\ Succeeded(r2))
        => req[r1].avail[1].id # req[r2].avail[1].id

(* C17: a legacy purchase of a ticket whose event is not Approved        *)
(* charges nothing, sells nothing and does not succeed.                  *)
C17_LegacyChecksEventApproval ==
    \A r \in Reqs :
        (/\ req[r].op = "legacy"
         /\ Len(req[r].avail) > 0
         /\ events[req[r].avail[1].eventID].status # EventStatusApproved)
        => /\ req[r].payID = 0
           /\ ~tickets[req[r].avail[1].id].isSold
           /\ ~Succeeded(r)

(* C18: a purchase that returned an error does not leave its payment     *)
(* record Completed.                                                     *)
C18_NoCompletedPaymentOnError ==
    \A r \in Reqs :
        (req[r].pc = "done" /\ req[r].result # "ok" /\ req[r].payID # 0)
            => payments[req[r].payID].status # PaymentStatusCompleted

(* ================================================================== *)
(* Ticket management by the seller: TicketService.CreateTickets,        *)
(* UpdateTickets, DeleteTickets, and the grouped listing.  The seller's *)
(* requests come one at a time, beside the purchases of the buyers.     *)
(* ================================================================== *)
Sellers == 1..MaxSellers
Buyers == 1..Min(MaxBuyers, MaxReqs)
Descriptions == {"d1", "d2"}

(* UpdateTicketRequest: a nil pointer is 0 for the price, "" for the description. *)
UpdateTicketRequest(price, description) == [price |-> price, description |-> description]

UpdateRequests == {UpdateTicketRequest(0, "d2"), UpdateTicketRequest(2, "")}

(* The group key of a row. *)
CriteriaOf(t) == Criteria(t.eventID, t.price, t.type, t.isVip, t.title, t.place, t.saleID)

(* ticketRepository.ListByGroupCriteria: the ids of the rows of the key, *)
(* without the sold ones unless includeSold.                            *)
ListByGroupCriteria(c, includeSold) ==
    {id \in DOMAIN tickets :
        /\ CriteriaOf(tickets[id]) = c
        /\ includeSold \/ ~tickets[id].isSold}

SReturn(rq, msg) ==
    sreq' = [IdleSReq EXCEPT !.op = rq.op, !.crit = rq.crit, !.calls = rq.calls,
                             !.pc = "done", !.result = msg]

(* The seller is between two requests, and makes another one. *)
SellerFree == sreq.pc \in {"idle", "done"} /\ sreq.calls < MaxSellerCalls

(* TicketService.CreateTickets: the event and sale checks, then amount   *)
(* inserts, of which the first created succeed.                          *)
CreateTickets ==
    /\ SellerFree
    /\ \E c \in RequestCriteria, d \in Descriptions, sellerID \in Sellers,
          amount \in 1..MaxAmount :
          LET rq == [IdleSReq EXCEPT !.op = "create", !.crit = c, !.description = d,
                                     !.calls = sreq.calls + 1]
              Refuse(msg) == SReturn(rq, msg) /\ UNCHANGED <<tickets, locks, ticketSeq>>
          IN /\ ticketSeq + amount <= MaxTickets + MaxCreated
             /\ IF c.eventID \notin DOMAIN events
                THEN Refuse("event not found")
                ELSE IF events[c.eventID].sellerID # sellerID
                THEN Refuse("unauthorized to create tickets for this event")
                ELSE IF c.saleID \notin DOMAIN sales
                THEN Refuse("sale not found")
                ELSE IF sales[c.saleID].eventID # c.eventID
                THEN Refuse("sale does not belong to this event")
                ELSE \E created \in 0..amount :
                        LET new == (ticketSeq + 1)..(ticketSeq + created)
                        IN /\ tickets' = [id \in DOMAIN tickets \cup new |->
                                            IF id \in new
                                            THEN [Ticket(id, c, FALSE, FALSE) EXCEPT !.description = d]
                                            ELSE tickets[id]]
                           /\ locks' = [id \in DOMAIN locks \cup new |->
                                            IF id \in new THEN 0 ELSE locks[id]]
                           /\ ticketSeq' = ticketSeq + created
                           /\ SReturn(rq, IF created < amount THEN "failed to create tickets" ELSE "ok")
    /\ UNCHANGED <<purchased, payments, sales, events, clock, req, saleSeq>>
    /\ UNCHANGED transferVars

(* The head of UpdateTickets and of DeleteTickets: the event check and   *)
(* ListByGroupCriteria(..., false), whose rows the request keeps.        *)
ListForSeller(op, verb, nextpc) ==
    /\ SellerFree
    /\ \E c \in RequestCriteria, sellerID \in Sellers, u \in UpdateRequests, dbOK \in BOOLEAN :
          LET rq == [IdleSReq EXCEPT !.op = op, !.crit = c, !.calls = sreq.calls + 1]
              ids == SetToSeq(ListByGroupCriteria(c, FALSE))
          IN IF c.eventID \notin DOMAIN events
             THEN SReturn(rq, "event not found")
             ELSE IF events[c.eventID].sellerID # sellerID
             THEN SReturn(rq, "unauthorized to " \o verb \o " tickets for this event")
             ELSE IF ~dbOK
             THEN SReturn(rq, "failed to find tickets to " \o verb)
             ELSE IF Len(ids) = 0
             THEN SReturn(rq, "no unsold tickets found matching criteria")
             ELSE sreq' = [rq EXCEPT !.pc = nextpc, !.i = 1,
                                     !.list = [k \in 1..Len(ids) |-> tickets[ids[k]]],
                                     !.price = IF op = "update" THEN u.price ELSE 0,
                                     !.description = IF op = "update" THEN u.description ELSE ""]
    /\ UNCHANGED <<tickets, locks, purchased, payments, sales, events, clock, req, ticketSeq, saleSeq>>
    /\ UNCHANGED transferVars

UpdateTickets_List == ListForSeller("update", "update", "update")

(* The loop body of UpdateTickets: the fields of the request that are   *)
(* not nil are set on the row as it was listed, and ticketRepo.Update   *)
(* saves every column of it.                                            *)
UpdateTickets_Update ==
    /\ sreq.op = "update"
    /\ sreq.pc = "update"
    /\ \E dbOK \in BOOLEAN :
          LET t == sreq.list[sreq.i]
              updated == [t EXCEPT
                            !.price = IF sreq.price # 0 THEN sreq.price ELSE @,
                            !.description = IF sreq.description # "" THEN sreq.description ELSE @]
          IN IF ~dbOK
             THEN /\ SReturn(sreq, "failed to update tickets")
                  /\ UNCHANGED tickets
             ELSE /\ SaveTicket(updated)
                  /\ IF sreq.i < Len(sreq.list)
                     THEN sreq' = [sreq EXCEPT !.i = sreq.i + 1]
                     ELSE SReturn(sreq, "ok")
    /\ UNCHANGED <<locks, purchased, payments, sales, events, clock, req, ticketSeq, saleSeq>>
    /\ UNCHANGED transferVars

DeleteTickets_List == ListForSeller("delete", "delete", "delete")

(* The loop body of DeleteTickets: ticketRepo.Delete(ticket.ID). *)
DeleteTickets_Delete ==
    /\ sreq.op = "delete"
    /\ sreq.pc = "delete"
    /\ \E dbOK \in BOOLEAN :
          IF ~dbOK
          THEN /\ SReturn(sreq, "failed to delete tickets")
               /\ UNCHANGED tickets
          ELSE /\ tickets' = [id \in DOMAIN tickets \ {sreq.list[sreq.i].id} |-> tickets[id]]
               /\ IF sreq.i < Len(sreq.list)
                  THEN sreq' = [sreq EXCEPT !.i = sreq.i + 1]
                  ELSE SReturn(sreq, "ok")
    /\ UNCHANGED <<locks, purchased, payments, sales, events, clock, req, ticketSeq, saleSeq>>
    /\ UNCHANGED transferVars

(* The GROUP BY columns of ListGroupedByEvent. *)
GroupByColumns(t) ==
    [price |-> t.price, type |-> t.type, isVip |-> t.isVip, title |-> t.title,
     description |-> t.description, place |-> t.place, saleID |-> t.saleID,
     eventID |-> t.eventID]

(* ticketRepository.ListGroupedByEvent: one row per value of the GROUP BY *)
(* columns among the event's tickets, with its four counts.               *)
ListGroupedByEvent(eventID) ==
    LET ofEvent == {id \in DOMAIN tickets : tickets[id].eventID = eventID}
        In(g) == {id \in ofEvent : GroupByColumns(tickets[id]) = g}
    IN {[group |-> g,
         totalAmount |-> Cardinality(In(g)),
         availableAmount |-> Cardinality({id \in In(g) : ~tickets[id].isSold /\ ~tickets[id].isHeld}),
         soldAmount |-> Cardinality({id \in In(g) : tickets[id].isSold}),
         heldAmount |-> Cardinality({id \in In(g) : tickets[id].isHeld /\ ~tickets[id].isSold})]
        : g \in {GroupByColumns(tickets[id]) : id \in ofEvent}}

NextSeller ==
    \/ Tick
    \/ CreateTickets
    \/ UpdateTickets_List
    \/ UpdateTickets_Update
    \/ DeleteTickets_List
    \/ DeleteTickets_Delete
    \/ \E r \in Buyers : PurchaseTicketFromGroup_CheckSale(r)
    \/ \E r \in Buyers : PurchaseTicketFromGroup_CheckEvent(r)
    \/ \E r \in Buyers : FindAndLockAvailableTickets_Select(r)
    \/ \E r \in Buyers : FindAndLockAvailableTickets_Commit(r)
    \/ \E r \in Buyers : ProcessPayment_Create(r)
    \/ \E r \in Buyers : ProcessMockPayment(r)
    \/ \E r \in Buyers : PurchaseTicketFromGroup_MarkSold(r)
    \/ \E r \in Buyers : PurchaseTicketFromGroup_CreatePurchased(r)

(* The seller's requests start when the sale window opens on an approved event. *)
InitSeller ==
    /\ tickets = InitTickets
    /\ locks = [id \in TicketIDs |-> 0]
    /\ purchased = <<>>
    /\ payments = <<>>
    /\ sales = (1 :> [startDate |-> 1, endDate |-> 2, eventID |-> 1])
    /\ events = (1 :> [status |-> EventStatusApproved, sellerID |-> 1])
    /\ clock = 1
    /\ req = [r \in Reqs |-> IdleReq]
    /\ transfers = <<>>
    /\ doneTransfers = <<>>
    /\ treq = [r \in TReqs |-> IdleTReq]
    /\ sreq = IdleSReq
    /\ ticketSeq = MaxTickets
    /\ saleSeq = 1

SpecSeller == InitSeller /\ [][NextSeller]_vars

(* ================================================================== *)
(* Properties of the ticket management (specification SpecSeller)       *)
(* ================================================================== *)
(* C12: a ticket that is sold stays sold for as long as its row exists. *)
C12_SoldMonotone ==
    [][\A id \in DOMAIN tickets :
          (tickets[id].isSold /\ id \in DOMAIN tickets') => tickets'[id].isSold]_vars

(* The rows ListGroupedByEvent reports for a group key. *)
ReportedFor(c) ==
    {g \in ListGroupedByEvent(c.eventID) :
        Criteria(g.group.eventID, g.group.price, g.group.type, g.group.isVip,
                 g.group.title, g.group.place, g.group.saleID) = c}

(* C15: for the group key of every ticket, ListGroupedByEvent reports    *)
(* exactly one row, whose total is the number of tickets of the key and  *)
(* whose available, sold and held counts add up to the total.            *)
C15_GroupCounts ==
    \A id \in DOMAIN tickets :
        LET c == CriteriaOf(tickets[id])
        IN /\ Cardinality(ReportedFor(c)) = 1
           /\ \A g \in ReportedFor(c) :
                 /\ g.totalAmount = Cardinality(ListByGroupCriteria(c, TRUE))
                 /\ g.availableAmount + g.soldAmount + g.heldAmount = g.totalAmount

(* C16: a CreateTickets, UpdateTickets or DeleteTickets called while the *)
(* sale window of its tickets is active returns an error at once and     *)
(* changes no ticket.                                                    *)
C16_ManagedOnlyOutsideWindow ==
    [][(/\ sreq' # sreq
        /\ sreq.pc \in {"idle", "done"}
        /\ sreq'.crit.saleID \in DOMAIN sales
        /\ sales[sreq'.crit.saleID].startDate <= clock
        /\ clock <= sales[sreq'.crit.saleID].endDate)
       => /\ sreq'.pc = "done"
          /\ sreq'.result # "ok"
          /\ tickets' = tickets]_vars

(* ================================================================== *)
(* Failure handling and ownership in AcceptTransfer (SpecTransfer)      *)
(* ================================================================== *)
(* C24: the last step of an accept returns "ok" whether or not its       *)
(* history row was appended, and changes no transfer record and no       *)
(* purchased ticket; every earlier step of an accept either has its      *)
(* effect and goes on or returns an error; and an accept returns "ok"    *)
(* from its last step only.                                              *)
C24_DoneFailureSwallowed ==
    [][\A r \in TReqs :
          (treq[r].op = "accept" /\ treq[r].pc \notin {"idle", "done"} /\ treq'[r] # treq[r])
          => LET id == treq[r].id
                 pt == treq[r].transfer.purchasedTicketID
                 Failed == treq'[r].pc = "done" /\ treq'[r].result # "ok"
             IN /\ treq[r].pc = "createDone"
                   => /\ treq'[r].pc = "done" /\ treq'[r].result = "ok"
                      /\ transfers' = transfers
                      /\ purchased' = purchased
                      /\ \/ doneTransfers' = doneTransfers
                         \/ doneTransfers' = Append(doneTransfers,
                                                DoneTicketTransfer(treq[r].transfer))
                /\ treq[r].pc = "update"
                   => \/ Failed /\ transfers' = transfers
                      \/ /\ treq'[r].pc = "getTicket"
                         /\ transfers'[id].status = TransferStatusAccepted
                /\ treq[r].pc = "getTicket"
                   => Failed \/ treq'[r].pc = "updateTicket"
                /\ treq[r].pc = "updateTicket"
                   => \/ Failed /\ purchased' = purchased
                      \/ /\ treq'[r].pc = "createDone"
                         /\ purchased'[pt].userID = treq[r].transfer.toUserID
                /\ treq'[r].result = "ok" => treq[r].pc = "createDone"]_vars

(* An accept returned "ok" without a history row: the record is         *)
(* Accepted and the ticket is the recipient's.                          *)
C24_Witness ==
    \E r \in TReqs :
        /\ treq[r].op = "accept" /\ treq[r].result = "ok"
        /\ doneTransfers = <<>>
        /\ Len(transfers) = 1
        /\ transfers[1].status = TransferStatusAccepted
        /\ purchased[transfers[1].purchasedTicketID].userID = transfers[1].toUserID

(* C28: when an accept changes the owner of a purchased ticket, the      *)
(* owner before the change is the fromUser of the accept's record.       *)
C28_AcceptMovesFromInitiator ==
    [][\A k \in DOMAIN purchased :
          purchased'[k].userID # purchased[k].userID
             => \E r \in TReqs :
                   /\ treq[r].op = "accept" /\ treq[r].pc = "updateTicket"
                   /\ treq'[r] # treq[r]
                   /\ transfers[treq[r].id].purchasedTicketID = k
                   /\ purchased[k].userID = transfers[treq[r].id].fromUserID]_vars

(* ================================================================== *)
(* Step order and the inventory lock (Spec, SpecHeld)                   *)
(* ================================================================== *)
(* C26: a group purchase has a payment record only with its sale check   *)
(* made inside the window, its event Approved and as many units locked   *)
(* as it asked for; and a step of a group purchase changes a ticket or   *)
(* the purchased tickets only after the gateway reported success and     *)
(* the payment record was written Completed.                             *)
C26_StepOrder ==
    /\ [](\A r \in Reqs :
             (req[r].op = "group" /\ req[r].payID # 0)
                => /\ req[r].crit.saleID \in DOMAIN sales
                   /\ sales[req[r].crit.saleID].startDate <= req[r].now
                   /\ req[r].now <= sales[req[r].crit.saleID].endDate
                   /\ events[req[r].crit.eventID].status = EventStatusApproved
                   /\ Len(req[r].avail) = req[r].quantity)
    /\ [][\A r \in Reqs :
             (/\ req'[r].op = "group" /\ req'[r] # req[r]
              /\ tickets' # tickets \/ purchased' # purchased)
             => /\ req[r].gateway = "success"
                /\ req[r].payID # 0
                /\ payments[req[r].payID].status = PaymentStatusCompleted]_vars

(* A group purchase of two units went through all its steps. *)
C26_Witness ==
    \E r \in Reqs :
        /\ req[r].op = "group" /\ Succeeded(r)
        /\ req[r].quantity = 2
        /\ payments[req[r].payID].status = PaymentStatusCompleted
        /\ \A k \in 1..2 : tickets[req[r].avail[k].id].isSold

(* The ids of the rows of a group that are neither sold nor held. *)
AvailableIn(c) ==
    {id \in DOMAIN tickets :
        /\ tickets[id].eventID = c.eventID /\ tickets[id].price = c.price
        /\ tickets[id].type = c.type /\ tickets[id].isVip = c.isVip
        /\ tickets[id].title = c.title /\ tickets[id].place = c.place
        /\ tickets[id].saleID = c.saleID
        /\ ~tickets[id].isSold /\ ~tickets[id].isHeld}

(* C27: the rows FindAndLockAvailableTickets returns are distinct rows   *)
(* of the requested group, as stored, neither sold nor held, and their   *)
(* number is the smaller of the quantity and the number of such rows;    *)
(* and no held ticket is ever sold.                                      *)
C27_FindAndLockResult ==
    /\ [][\A r \in Reqs :
             (req[r].pc = "lock" /\ req'[r].pc = "locked")
             => LET rows == req'[r].avail
                IN /\ Len(rows) = Min(req[r].quantity, Cardinality(AvailableIn(req[r].crit)))
                   /\ \A k \in 1..Len(rows) :
                         /\ rows[k].id \in AvailableIn(req[r].crit)
                         /\ rows[k] = tickets[rows[k].id]
                   /\ \A k, l \in 1..Len(rows) : rows[k].id = rows[l].id => k = l]_vars
    /\ [](\A id \in DOMAIN tickets : tickets[id].isHeld => ~tickets[id].isSold)

(* A request for two units of the group with one free and one held unit  *)
(* got the free one only and was refused.                                *)
C27_Witness ==
    \E r \in Reqs :
        /\ req[r].op = "group" /\ req[r].crit = GroupB /\ req[r].quantity = 2
        /\ Len(req[r].avail) = 1
        /\ req[r].avail[1].id \in AvailableIn(GroupB)
        /\ tickets[MaxTickets].isHeld
        /\ req[r].pc = "done" /\ req[r].result # "ok"
        /\ req[r].payID = 0

(* ================================================================== *)
(* Ticket management against purchases (SpecSeller)                     *)
(* ================================================================== *)
(* C23: a write of UpdateTickets or DeleteTickets changes or deletes a   *)
(* ticket that is unsold in the table at that moment, and every          *)
(* purchased ticket refers to a ticket of the table.                     *)
C23_OnlyUnsoldManaged ==
    /\ [][(/\ sreq.pc \in {"update", "delete"}
           /\ sreq' # sreq
           /\ tickets' # tickets)
          => LET id == sreq.list[sreq.i].id
             IN id \in DOMAIN tickets => ~tickets[id].isSold]_vars
    /\ [](\A k \in DOMAIN purchased : purchased[k].ticketID \in DOMAIN tickets)

(* ================================================================== *)
(* PaymentService.RefundPayment beside the purchases                    *)
(* ================================================================== *)
PaymentIDs == 1..(MaxReqs + 1)

(* RefundPayment setting Refunded whatever the status of the record. *)
RefundPayment_AnyStatus ==
    /\ \E paymentID \in PaymentIDs, dbOK \in BOOLEAN :
          IF paymentID \notin DOMAIN payments \/ ~dbOK
          THEN UNCHANGED payments
          ELSE payments' = [payments EXCEPT ![paymentID].status = PaymentStatusRefunded]
    /\ UNCHANGED <<tickets, locks, purchased, sales, events, clock, req>>
    /\ UNCHANGED <<transferVars, sellerVars>>

(* PaymentService.RefundPayment: paymentRepo.GetByID ("payment not       *)
(* found"), the status check ("can only refund completed payments"),     *)
(* and paymentRepo.Update of the record with status Refunded ("failed to *)
(* process refund").  Every error leaves the record as it was.           *)
RefundPayment ==
    /\ \E paymentID \in PaymentIDs, dbOK \in BOOLEAN :
          IF paymentID \notin DOMAIN payments \/ ~dbOK
          THEN UNCHANGED payments
          ELSE IF payments[paymentID].status # PaymentStatusCompleted
               THEN UNCHANGED payments
               ELSE payments' = [payments EXCEPT ![paymentID].status = PaymentStatusRefunded]
    /\ UNCHANGED <<tickets, locks, purchased, sales, events, clock, req>>
    /\ UNCHANGED <<transferVars, sellerVars>>

NextPayment ==
    \/ Next
    \/ RefundPayment

SpecPayment == Init /\ [][NextPayment]_vars

(* ================================================================== *)
(* Properties of the payment records (specification SpecPayment)        *)
(* ================================================================== *)
(* A step adds at most one payment record, Pending, for a purchase that  *)
(* had none and whose gateway outcome is not known; a purchase keeps its *)
(* record, and a purchase that returned does nothing more.               *)
PaymentCreatedPendingOnce ==
    /\ Len(payments') \in {Len(payments), Len(payments) + 1}
    /\ Len(payments') = Len(payments) + 1
       => /\ payments'[Len(payments')].status = PaymentStatusPending
          /\ \E r \in Reqs :
                /\ req[r].pc = "pay" /\ req[r].payID = 0
                /\ req'[r].payID = Len(payments')
                /\ req'[r].gateway = "none"
    /\ \A r \in Reqs :
          /\ req[r].payID # 0 => req'[r].payID = req[r].payID
          /\ req[r].pc = "done" => req'[r] = req[r]

(* The record k goes from Pending to the outcome the gateway gave the    *)
(* purchase it belongs to.                                               *)
OutcomeWritten(k) ==
    /\ payments[k].status = PaymentStatusPending
    /\ \E r \in Reqs :
          /\ req[r].payID = k /\ req[r].pc = "gateway"
          /\ req'[r].gateway \in {"success", "failure"}
          /\ payments'[k].status = IF req'[r].gateway = "success"
                                   THEN PaymentStatusCompleted
                                   ELSE PaymentStatusFailed

(* C22 as stated: records are created Pending, once per purchase; a      *)
(* purchase whose gateway answered has its record Completed or Failed;   *)
(* and a Completed, Failed or Refunded record never changes.             *)
C22_PaymentWrittenOnce ==
    /\ [][/\ PaymentCreatedPendingOnce
          /\ \A k \in DOMAIN payments :
                payments'[k] # payments[k]
                   => /\ payments'[k] = [payments[k] EXCEPT !.status = payments'[k].status]
                      /\ OutcomeWritten(k)]_vars
    /\ [](\A r \in Reqs :
             (req[r].payID # 0 /\ req[r].gateway # "none")
                => payments[req[r].payID].status # PaymentStatusPending)

(* C22: records are created Pending, once per purchase; a record changes *)
(* in its status only, from Pending to the gateway's outcome (not at all *)
(* when that write fails) or from Completed to Refunded by a refund; a   *)
(* Failed or Refunded record never changes; no two purchases share a     *)
(* record.                                                               *)
C22_PaymentLifecycle ==
    /\ [][/\ PaymentCreatedPendingOnce
          /\ \A k \in DOMAIN payments :
                payments'[k] # payments[k]
                   => /\ payments'[k] = [payments[k] EXCEPT !.status = payments'[k].status]
                      /\ \/ OutcomeWritten(k)
                         \/ /\ payments[k].status = PaymentStatusCompleted
                            /\ payments'[k].status = PaymentStatusRefunded
                            /\ req' = req]_vars
    /\ [](\A r1, r2 \in Reqs :
             (req[r1].payID # 0 /\ req[r1].payID = req[r2].payID) => r1 = r2)

(* One purchase's Completed record was refunded, and another purchase's  *)
(* record stayed Pending because the write of the outcome failed.        *)
C22_Witness ==
    \E r1, r2 \in Reqs :
        /\ req[r1].payID # 0 /\ req[r2].payID # 0
        /\ payments[req[r1].payID].status = PaymentStatusRefunded
        /\ req[r2].gateway # "none" /\ req[r2].pc = "done"
        /\ payments[req[r2].payID].status = PaymentStatusPending

(* ================================================================== *)
(* The HTTP routes of the transfers: setupRouter registers              *)
(* POST /transfers/:transfer_id/accept and /:transfer_id/reject, and    *)
(* TransferHandler reads the path parameter and calls the service.      *)
(* A path segment is a sequence of characters.                          *)
(* ================================================================== *)
Digits == <<"0", "1", "2", "3", "4", "5", "6", "7", "8", "9">>

PathSegments == {<<"1">>, <<"2">>, <<"3">>, <<"x">>}

(* The parameters gin binds for a request to one of the two routes: the  *)
(* name the route declares, with the segment of the path.                *)
RouteParams(segment) == [transfer_id |-> segment]

(* gin.Context.Param: the value bound to the name, "" for a name the     *)
(* route does not declare.                                               *)
Param(params, key) == IF key \in DOMAIN params THEN params[key] ELSE <<>>

DigitValue(ch) == CHOOSE d \in 0..9 : Digits[d + 1] = ch

RECURSIVE DecimalValue(_)
DecimalValue(s) ==
    IF Len(s) = 0 THEN 0
    ELSE 10 * DecimalValue(SubSeq(s, 1, Len(s) - 1)) + DigitValue(s[Len(s)])

(* strconv.ParseUint(s, 10, 32): an error for the empty string and for a *)
(* string with a character that is no digit.                             *)
ParseUint(s) ==
    IF Len(s) = 0 \/ \E k \in 1..Len(s) : \A d \in 1..10 : Digits[d] # s[k]
    THEN [err |-> TRUE, value |-> 0]
    ELSE [err |-> FALSE, value |-> DecimalValue(s)]

(* utils.BadRequestResponse: the response is with the caller. *)
BadRequestResponse(r, rq, msg) ==
    treq' = [treq EXCEPT ![r] = [rq EXCEPT !.pc = "done", !.code = 400, !.result = msg]]

(* TransferHandler.AcceptTransfer and RejectTransfer up to the first     *)
(* store round trip of the service: the caller is the authenticated      *)
(* user, the id is parsed from c.Param("id"), and the service starts     *)
(* with GetActiveByID, the recipient check and the status check; every   *)
(* error is answered with 400.                                           *)
HandleTransfer(r, op, verb) ==
    /\ Free(r)
    /\ \E userID \in Users, segment \in PathSegments :
          LET parsed == ParseUint(Param(RouteParams(segment), "id"))
              transferID == parsed.value
              rq == [IdleTReq EXCEPT !.op = op, !.userID = userID,
                                     !.path = segment, !.id = transferID]
          IN IF parsed.err
             THEN BadRequestResponse(r, rq, "Invalid transfer ID")
             ELSE IF transferID \notin DOMAIN transfers
                  THEN BadRequestResponse(r, rq, "transfer not found")
                  ELSE IF transfers[transferID].toUserID # userID
                       THEN BadRequestResponse(r, rq, "unauthorized to " \o verb \o " this transfer")
                       ELSE IF transfers[transferID].status # TransferStatusPending
                            THEN BadRequestResponse(r, rq, "transfer is not in pending status")
                            ELSE TGoto(r, [rq EXCEPT !.transfer = transfers[transferID]], "update")
    /\ UNCHANGED <<purchased, transfers, doneTransfers>>
    /\ UNCHANGED <<purchaseVars, sellerVars>>

AcceptTransferHandler(r) == HandleTransfer(r, "accept", "accept")

RejectTransferHandler(r) == HandleTransfer(r, "reject", "reject")

(* The transfer requests that come over HTTP.  No request gets past the  *)
(* handlers, so the later steps of the service, those of NextTransfer,   *)
(* have no part here.                                                    *)
NextHTTP ==
    \/ \E r \in TReqs : InitiateTransfer_Check(r)
    \/ \E r \in TReqs : InitiateTransfer_Create(r)
    \/ \E r \in TReqs : AcceptTransferHandler(r)
    \/ \E r \in TReqs : RejectTransferHandler(r)

SpecHTTP == InitTransfer /\ [][NextHTTP]_vars

(* ================================================================== *)
(* Properties of the transfer routes (specification SpecHTTP)           *)
(* ================================================================== *)
(* C25: a POST to the accept or reject route whose path carries the id   *)
(* of a Pending transfer, sent by the transfer's recipient, passes the   *)
(* handler and the service's checks with that id and is not answered 400. *)
C25_RouteInvokesService ==
    [][\A r \in TReqs :
          (/\ treq'[r] # treq[r]
           /\ treq[r].pc \in {"idle", "done"}
           /\ treq'[r].op \in {"accept", "reject"})
          => LET rq == treq'[r]
                 sent == ParseUint(rq.path)
             IN (/\ ~sent.err
                 /\ sent.value \in DOMAIN transfers
                 /\ transfers[sent.value].status = TransferStatusPending
                 /\ transfers[sent.value].toUserID = rq.userID)
                => /\ rq.pc = "update"
                   /\ rq.id = sent.value
                   /\ rq.code # 400]_vars

(* ================================================================== *)
(* SaleService.CreateSale, UpdateSale, DeleteSale.  The seller's calls  *)
(* come one at a time; each is one step.  sreq.sale keeps the arguments *)
(* of the last call, the time it read and the id of its sale.           *)
(* ================================================================== *)
(* The dates a request may carry; 0 is a field the request leaves out. *)
SaleDates == 0..MaxDate

SaleEventIDs == 1..2

SaleIDs == 1..MaxSales

SaleCall(id, startDate, endDate, eventID, sellerID, now) ==
    [id |-> id, startDate |-> startDate, endDate |-> endDate, eventID |-> eventID,
     sellerID |-> sellerID, now |-> now]

SaleReturn(rq, msg) == sreq' = [rq EXCEPT !.pc = "done", !.result = msg]

(* SaleService.isSaleActive *)
isSaleActive(sale, currentTime) ==
    currentTime >= sale.startDate /\ currentTime <= sale.endDate

(* datesOverlap seeing only a window that starts inside the other one. *)
datesOverlap_StartInside(start1, end1, start2, end2) ==
    start2 <= start1 /\ start1 < end2

(* SaleService.datesOverlap *)
datesOverlap(start1, end1, start2, end2) ==
    start1 < end2 /\ start2 < end1

(* saleRepo.ListByEvent *)
ListByEvent(eventID) == {id \in DOMAIN sales : sales[id].eventID = eventID}

(* The store calls of a sale request that may fail. *)
SaleFailures == {"none", "list", "write"}

(* SaleService.CreateSale: the date checks against time.Now(), the event *)
(* checks, the overlap check against ListByEvent, saleRepo.Create.       *)
CreateSale ==
    /\ sreq.pc \in {"idle", "done"}
    /\ saleSeq < MaxSales
    /\ \E startDate \in SaleDates, endDate \in SaleDates, eventID \in SaleEventIDs,
          sellerID \in Sellers :
          LET now == clock
              rq == [IdleSReq EXCEPT !.op = "createSale",
                        !.sale = SaleCall(0, startDate, endDate, eventID, sellerID, now)]
              Refuse(msg) == SaleReturn(rq, msg) /\ UNCHANGED <<sales, saleSeq>>
          IN IF startDate <= now
             THEN Refuse("sale start date must be in the future")
             ELSE IF endDate <= startDate
             THEN Refuse("sale end date must be after start date")
             ELSE IF eventID \notin DOMAIN events
             THEN Refuse("event not found")
             ELSE IF events[eventID].sellerID # sellerID
             THEN Refuse("unauthorized to create sale for this event")
             ELSE IF events[eventID].status # EventStatusApproved
             THEN Refuse("can only create sales for approved events")
             ELSE \E fail \in SaleFailures :
                IF fail = "list"
                THEN Refuse("failed to check existing sales")
                ELSE IF \E id \in ListByEvent(eventID) :
                           datesOverlap(startDate, endDate,
                                        sales[id].startDate, sales[id].endDate)
                THEN Refuse("sale dates overlap with existing sale")
                ELSE IF fail = "write"
                THEN Refuse("failed to create sale")
                ELSE /\ sales' = (saleSeq + 1 :> [startDate |-> startDate,
                                                  endDate |-> endDate,
                                                  eventID |-> eventID]) @@ sales
                     /\ saleSeq' = saleSeq + 1
                     /\ SaleReturn([rq EXCEPT !.sale.id = saleSeq + 1], "ok")
    /\ UNCHANGED <<tickets, locks, purchased, payments, events, clock, req, ticketSeq>>
    /\ UNCHANGED transferVars

(* SaleService.UpdateSale: the sale and event checks, the refusal of an  *)
(* active sale, the checks of the dates the request carries (0: none),   *)
(* the overlap check leaving out the sale itself, saleRepo.Update.       *)
UpdateSale ==
    /\ sreq.pc \in {"idle", "done"}
    /\ \E saleID \in SaleIDs, reqStart \in SaleDates, reqEnd \in SaleDates,
          sellerID \in Sellers :
          LET now == clock
              rq == [IdleSReq EXCEPT !.op = "updateSale",
                        !.sale = SaleCall(saleID, reqStart, reqEnd, 0, sellerID, now)]
              Refuse(msg) == SaleReturn(rq, msg) /\ UNCHANGED sales
          IN IF saleID \notin DOMAIN sales
             THEN Refuse("sale not found")
             ELSE LET sale == sales[saleID]
                      startDate == IF reqStart # 0 THEN reqStart ELSE sale.startDate
                      endDate == IF reqEnd # 0 THEN reqEnd ELSE sale.endDate
                  IN IF sale.eventID \notin DOMAIN events
                     THEN Refuse("event not found")
                     ELSE IF events[sale.eventID].sellerID # sellerID
                     THEN Refuse("unauthorized to update this sale")
                     ELSE IF isSaleActive(sale, now)
                     THEN Refuse("cannot update active sale")
                     ELSE IF reqStart # 0 /\ reqStart <= now
                     THEN Refuse("sale start date must be in the future")
                     ELSE IF endDate <= startDate
                     THEN Refuse("sale end date must be after start date")
                     ELSE \E fail \in SaleFailures :
                        IF fail = "list"
                        THEN Refuse("failed to check existing sales")
                        ELSE IF \E id \in ListByEvent(sale.eventID) :
                                   /\ id # saleID
                                   /\ datesOverlap(startDate, endDate,
                                                   sales[id].startDate, sales[id].endDate)
                        THEN Refuse("sale dates overlap with existing sale")
                        ELSE IF fail = "write"
                        THEN Refuse("failed to update sale")
                        ELSE /\ sales' = [sales EXCEPT ![saleID].startDate = startDate,
                                                       ![saleID].endDate = endDate]
                             /\ SaleReturn(rq, "ok")
    /\ UNCHANGED <<tickets, locks, purchased, payments, events, clock, req, ticketSeq, saleSeq>>
    /\ UNCHANGED transferVars

(* SaleService.DeleteSale: the sale and event checks, the refusal of an  *)
(* active sale, saleRepo.Delete.                                         *)
DeleteSale ==
    /\ sreq.pc \in {"idle", "done"}
    /\ \E saleID \in SaleIDs, sellerID \in Sellers :
          LET now == clock
              rq == [IdleSReq EXCEPT !.op = "deleteSale",
                        !.sale = SaleCall(saleID, 0, 0, 0, sellerID, now)]
              Refuse(msg) == SaleReturn(rq, msg) /\ UNCHANGED sales
          IN IF saleID \notin DOMAIN sales
             THEN Refuse("sale not found")
             ELSE IF sales[saleID].eventID \notin DOMAIN events
             THEN Refuse("event not found")
             ELSE IF events[sales[saleID].eventID].sellerID # sellerID
             THEN Refuse("unauthorized to delete this sale")
             ELSE IF isSaleActive(sales[saleID], now)
             THEN Refuse("cannot delete active sale")
             ELSE \E fail \in SaleFailures \ {"list"} :
                IF fail = "write"
                THEN Refuse("failed to delete sale")
                ELSE /\ sales' = [id \in DOMAIN sales \ {saleID} |-> sales[id]]
                     /\ SaleReturn(rq, "ok")
    /\ UNCHANGED <<tickets, locks, purchased, payments, events, clock, req, ticketSeq, saleSeq>>
    /\ UNCHANGED transferVars

NextSale ==
    \/ Tick
    \/ CreateSale
    \/ UpdateSale
    \/ DeleteSale

SpecSale == Init /\ [][NextSale]_vars

(* ================================================================== *)
(* Properties of the sale windows (specification SpecSale)              *)
(* ================================================================== *)
(* The window a create or update call asks for, and the sale it leaves   *)
(* out of the comparison.                                                *)
AskedWindow(rq) ==
    IF rq.op = "createSale"
    THEN [startDate |-> rq.sale.startDate, endDate |-> rq.sale.endDate,
          eventID |-> rq.sale.eventID, self |-> 0]
    ELSE LET sale == sales[rq.sale.id]
         IN [startDate |-> IF rq.sale.startDate # 0 THEN rq.sale.startDate ELSE sale.startDate,
             endDate |-> IF rq.sale.endDate # 0 THEN rq.sale.endDate ELSE sale.endDate,
             eventID |-> sale.eventID, self |-> rq.sale.id]

(* C21: every stored window has start < end, no two windows of an event  *)
(* overlap as half-open intervals, and a create or update asking for a   *)
(* window with start >= end or overlapping another window of the event   *)
(* is refused and changes no window.                                     *)
C21_WindowsDisjoint ==
    /\ [](\A id \in DOMAIN sales : sales[id].startDate < sales[id].endDate)
    /\ [](\A id1, id2 \in DOMAIN sales :
             (id1 # id2 /\ sales[id1].eventID = sales[id2].eventID)
                => ~(/\ sales[id1].startDate < sales[id2].endDate
                     /\ sales[id2].startDate < sales[id1].endDate))
    /\ [][(/\ sreq' # sreq
           /\ sreq'.op \in {"createSale", "updateSale"}
           /\ sreq'.op = "updateSale" => sreq'.sale.id \in DOMAIN sales)
          => LET w == AskedWindow(sreq')
             IN (\/ w.startDate >= w.endDate
                 \/ \E id \in DOMAIN sales \ {w.self} :
                       /\ sales[id].eventID = w.eventID
                       /\ w.startDate < sales[id].endDate
                       /\ sales[id].startDate < w.endDate)
                => sreq'.result # "ok" /\ sales' = sales]_vars

(* Two windows are stored, and an update that would make one overlap the *)
(* other was refused.                                                    *)
C21_Witness ==
    /\ Cardinality(DOMAIN sales) >= 2
    /\ sreq.op = "updateSale"
    /\ sreq.result = "sale dates overlap with existing sale"

(* C29: at every instant, at most one of an event's stored windows is    *)
(* active (start <= now <= end).                                         *)
C29_OneActiveWindow ==
    \A now \in 0..MaxDate : \A id1, id2 \in DOMAIN sales :
        (/\ sales[id1].eventID = sales[id2].eventID
         /\ sales[id1].startDate <= now /\ now <= sales[id1].endDate
         /\ sales[id2].startDate <= now /\ now <= sales[id2].endDate)
        => id1 = id2

(* C30: the window of a successful create or update is not active at the *)
(* time of the call, and an update or delete of a window that is active  *)
(* at the time of the call is refused and changes no window.             *)
C30_NeverActiveAfterEdit ==
    [][(sreq' # sreq /\ sreq'.op \in {"createSale", "updateSale", "deleteSale"})
       => LET rq == sreq'
          IN /\ (rq.op \in {"createSale", "updateSale"} /\ rq.result = "ok")
                => ~(/\ sales'[rq.sale.id].startDate <= rq.sale.now
                     /\ rq.sale.now <= sales'[rq.sale.id].endDate)
             /\ (/\ rq.op \in {"updateSale", "deleteSale"}
                 /\ rq.sale.id \in DOMAIN sales
                 /\ sales[rq.sale.id].startDate <= rq.sale.now
                 /\ rq.sale.now <= sales[rq.sale.id].endDate)
                => rq.result # "ok" /\ sales' = sales]_vars

====
